---- MODULE Spec2Model ----
(***************************************************************************)
(* A model of cs3560cli's submission categorizer,                          *)
(* src/cs3560cli/services/canvas.py: get_unique_names and categorize.      *)
(*                                                                         *)
(* A file name is a sequence of one-character strings.  The destination    *)
(* tree is a pair of sets of paths relative to the destination directory   *)
(* (a path is a sequence of names): the directories and the regular files. *)
(* The source is a directory of regular files or a zip archive of flat     *)
(* member names.  Every mutating system call (os.mkdir, os.rename,         *)
(* ZipFile.extract) either takes effect or raises, as the environment      *)
(* decides; the read-only tests (is_dir, exists, is_zipfile, listdir) are  *)
(* functions of the file-system state.                                     *)
(***************************************************************************)
EXTENDS Integers, Sequences, FiniteSets, TLC

\* ---------------------------------------------------------------- bounds
MaxNameLen == 2
MaxFiles == 2

Alphabet == {"a", "_"}
Sep == "_"

\* Every file name of at most MaxNameLen characters.
Names == UNION {[1..k -> Alphabet] : k \in 1..MaxNameLen}

Batches == {S \in SUBSET Names : Cardinality(S) <= MaxFiles}

\* ------------------------------------------------------- pure functions

\* Positions of the separator in s.
SepPositions(s) == {i \in 1..Len(s) : s[i] = Sep}

\* A plausible slip: str.rsplit("_", 1), which cuts at the LAST separator.
RSplitOnce(s) ==
    IF SepPositions(s) = {} THEN <<s>>
    ELSE LET k == CHOOSE i \in SepPositions(s) : \A j \in SepPositions(s) : j <= i
         IN  <<SubSeq(s, 1, k - 1), SubSeq(s, k + 1, Len(s))>>

\* Python's str.split("_"): the tokens between separators, never an empty list.
RECURSIVE Split(_)
Split(s) ==
    IF SepPositions(s) = {} THEN <<s>>
    ELSE LET k == CHOOSE i \in SepPositions(s) : \A j \in SepPositions(s) : i <= j
         IN  <<SubSeq(s, 1, k - 1)>> \o Split(SubSeq(s, k + 1, Len(s)))

\* A plausible slip: tokens[-1], the last token, in place of tokens[0].
GetUniqueNamesLast(listing) ==
    {Split(filename)[Len(Split(filename))] : filename \in listing}

\* get_unique_names, lines 58-67: tokens[0] of every file name whose token list
\* is not empty, deduplicated through set().
GetUniqueNames(listing) ==
    {Split(filename)[1] : filename \in {f \in listing : Len(Split(f)) # 0}}

\* categorize, line 125: name = raw_filename.split("_")[0].
StudentName(raw) == Split(raw)[1]

\* os.path.join(destination, p1, ..., pn), relative to destination: an empty
\* component adds nothing ("dest" + "" + "x" is "dest/x").
PathJoin(parts) == SelectSeq(parts, LAMBDA c : c # <<>>)

Parent(p) == SubSeq(p, 1, Len(p) - 1)

\* One more call recorded for path p.
CountCall(calls, p) ==
    [q \in DOMAIN calls \cup {p} |->
        IF q = p THEN (IF p \in DOMAIN calls THEN calls[p] + 1 ELSE 1)
        ELSE calls[q]]

\* -------------------------------------------------------------- state
VARIABLES
    srcKind,       \* what the source path is: "dir", "zip", "file", "absent"
    srcFiles,      \* the regular files of the source directory / the zip members
    destKind,      \* what the destination path is: "absent", "file", "dir"
    destDirs,      \* directories under the destination (paths)
    destFiles,     \* regular files under the destination (paths)
    pc,            \* categorize's position
    exc,           \* the exception categorize raised, "none" if none
    unique_names,  \* get_unique_names's result
    todo_names,    \* handles the mkdir loop has yet to visit
    files,         \* the relocation loop's listing
    todo_files,    \* files the relocation loop has yet to visit
    derived,       \* the pairs <<raw_filename, name>> the relocation loop visited
    zip_f,         \* the archive handle: "unbound", "open", "closed"
    errors,        \* file names passed to logging.error
    relocated,     \* file names whose rename/extract returned normally
    mkdir_calls,   \* how many times os.mkdir created each path
    initial,       \* the file system before the call
    srcDirs,       \* the subdirectories of the source directory
    run,           \* which call of categorize this is: 1 or 2
    afterFirst     \* how the first call ended, once a second one has begun

catVars == <<srcKind, srcFiles, destKind, destDirs, destFiles, pc, exc,
             unique_names, todo_names, files, todo_files, derived, zip_f,
             errors, relocated, mkdir_calls, initial>>

runVars == <<run, afterFirst>>

\* parse_url_for_course_id: its argument and what it returned.
VARIABLES
    url,           \* the URL after its scheme and host, a sequence of atoms
    course_id      \* the returned value, <<"unset">> before the call

urlVars == <<url, course_id>>

\* One CanvasApi call: the call, the HTTP response it gets, and how it ends.
VARIABLES
    api_call,      \* [op, groupset_name]
    response,      \* [status_code, course, nodes]
    api_return,    \* the returned value, <<"unset">> before the return
    api_raised     \* the exception the call ended with, or "none"

apiVars == <<api_call, response, api_return, api_raised>>

\* One run of the command create gh-invite.
VARIABLES
    inv,               \* the arguments, and what Canvas or the file holds
    inv_pc,            \* where the command is
    email_addresses,   \* the addresses collected
    team_id,           \* "unset", "id" or "None"
    dry_lines,         \* the addresses of the "(dry-run) Inviting" lines printed
    invite_calls,      \* the address lists given to bulk_invite_to_org
    canvas_queries,    \* the course ids given to get_students
    inv_exc            \* the exception the command ended with, or "none"

invVars == <<inv, inv_pc, email_addresses, team_id, dry_lines, invite_calls,
             canvas_queries, inv_exc>>

\* The watcher's event handler and the one path its events are about.
VARIABLES
    w_platform,    \* "linux" or "windows"
    w_name,        \* the file name, as its dot-separated parts
    w_target,      \* what is at the target folder: "absent", "dir" or "file"
    w_last,        \* the last event handled and what its handler did
    w_sevenz,      \* how many times 7z was run
    w_events,      \* how many events were handled
    w_exc          \* the exception that ended the observer thread, or "none"

watchVars == <<w_platform, w_name, w_target, w_last, w_sevenz, w_events, w_exc>>

\* The Config object of one process and the auth.yaml of its config_dir.
VARIABLES
    cfg_file,      \* auth.yaml: absent, malformed, or a document of scalars
    cfg,           \* the object's github_token, canvas_token and redis_uri
    cfg_last,      \* the last operation on the object
    cfg_saved,     \* the values the last save() wrote
    cfg_exc        \* the exception the process ended with, or "none"

cfgVars == <<cfg_file, cfg, cfg_last, cfg_saved, cfg_exc>>

\* One call of build_gitignore_content, alone or within create gitignore.
VARIABLES
    gi,              \* the arguments
    gi_pc,           \* where the command or the function is
    gi_todo,         \* the names still to fetch
    gi_fetched,      \* the fetches made: name, path and status
    final_text,      \* the headers and bodies put together so far
    error_occured,
    gi_prompts,      \* the confirmations asked and the answers given
    outfile,         \* the output file: absent, as it was, or what was written
    gi_exc           \* the exception the call ended with, or "none"

giVars == <<gi, gi_pc, gi_todo, gi_fetched, final_text, error_occured,
            gi_prompts, outfile, gi_exc>>

catAll == <<catVars, srcDirs, runVars>>

\* Everything that is not the categorizer's.
notCat == <<urlVars, apiVars, invVars, watchVars, cfgVars, giVars>>

\* Everything that is not parse_url_for_course_id's.
notUrl == <<catAll, apiVars, invVars, watchVars, cfgVars, giVars>>

\* Everything that is not CanvasApi's.
notApi == <<catAll, urlVars, invVars, watchVars, cfgVars, giVars>>

\* Everything that is not create gh-invite's.
notInv == <<catAll, urlVars, apiVars, watchVars, cfgVars, giVars>>

\* Everything that is not the watcher's.
notWatch == <<catAll, urlVars, apiVars, invVars, cfgVars, giVars>>

\* Everything that is not Config's.
notCfg == <<catAll, urlVars, apiVars, invVars, watchVars, giVars>>

\* Everything that is not create gitignore's.
notGi == <<catAll, urlVars, apiVars, invVars, watchVars, cfgVars>>

vars == <<catVars, srcDirs, runVars, notCat>>

\* os.listdir(source): every entry of the directory.
ListDir == srcFiles \cup srcDirs

\* os.path.isfile(os.path.join(source, f))
IsFile(f) == f \in srcFiles

\* source.is_dir() or zipfile.is_zipfile(source)
SourceValid == srcKind \in {"dir", "zip"}

IsZip == srcKind = "zip"

\* A plausible slip: the listing is not filtered to regular files.
NameListingUnfiltered == IF IsZip THEN srcFiles ELSE ListDir

\* lines 52-56: the member names of the archive, or the regular files of the
\* directory.
NameListing == IF IsZip THEN srcFiles ELSE {f \in ListDir : IsFile(f)}

\* lines 113-119: the same listing, taken again by categorize.
FileListing == IF IsZip THEN srcFiles ELSE {f \in ListDir : IsFile(f)}

\* os.path.exists / os.path.isdir of destination/p.
Exists(p) == destKind = "dir" /\ (p = <<>> \/ p \in destDirs \/ p \in destFiles)
IsDir(p) == destKind = "dir" /\ (p = <<>> \/ p \in destDirs)

\* The one entry of the destination a file's relocation looks at: its handle's
\* subdirectory, or the file's own path when the handle is empty.
RelevantPath(f) == IF StudentName(f) = <<>> THEN <<f>> ELSE <<StudentName(f)>>

\* What the destination holds before the call: each relevant path is absent,
\* a regular file or a directory.
PreExisting(batch) == [{RelevantPath(f) : f \in batch} -> {"absent", "file", "dir"}]

\* The arguments of the call and the file system they name.
CatInputs ==
    /\ srcKind \in {"dir", "zip", "file", "absent"}
    /\ srcFiles \in (IF SourceValid THEN Batches ELSE {{}})
    /\ destKind \in {"absent", "file", "dir"}
    /\ \E k \in PreExisting(srcFiles) :
          /\ destKind # "dir" => \A p \in DOMAIN k : k[p] = "absent"
          /\ destDirs = {p \in DOMAIN k : k[p] = "dir"}
          /\ destFiles = {p \in DOMAIN k : k[p] = "file"}

\* No second call has begun.
NoRun == [pc |-> "none"]

\* categorize's locals before any step, and no second call.
CatFresh ==
    /\ exc = "none"
    /\ unique_names = {}
    /\ todo_names = {}
    /\ files = {}
    /\ todo_files = {}
    /\ derived = {}
    /\ zip_f = "unbound"
    /\ errors = {}
    /\ relocated = {}
    /\ mkdir_calls = [p \in {} |-> 0]
    /\ initial = [srcFiles |-> srcFiles, srcDirs |-> srcDirs,
                  destKind |-> destKind, destDirs |-> destDirs,
                  destFiles |-> destFiles]
    /\ run = 1
    /\ afterFirst = NoRun

\* categorize's locals at entry.
CatLocals == pc = "start" /\ CatFresh

\* Python's None and a returned value, kept apart from every value.
None == <<"none">>
Some(v) == <<"some", v>>
Unset == <<"unset">>

\* parse_url_for_course_id is not running.
UrlIdle == url = <<>> /\ course_id = Unset

\* No CanvasApi call is made.
ApiIdle ==
    /\ api_call = [op |-> "none"]
    /\ response = [status_code |-> 0]
    /\ api_return = Unset
    /\ api_raised = "none"

\* create gh-invite is not running.
InvIdle ==
    /\ inv = [dry_run |-> FALSE]
    /\ inv_pc = "idle"
    /\ email_addresses = <<>>
    /\ team_id = "unset"
    /\ dry_lines = <<>>
    /\ invite_calls = <<>>
    /\ canvas_queries = <<>>
    /\ inv_exc = "none"

\* No event before the watcher's first.
NoEvent == [handler |-> "none"]

\* The watcher is not running.
WatchIdle ==
    /\ w_platform = "none"
    /\ w_name = <<>>
    /\ w_target = "absent"
    /\ w_last = NoEvent
    /\ w_sevenz = 0
    /\ w_events = 0
    /\ w_exc = "none"

\* A str value, and the values of a Config just made.
Str(text) == <<"str", text>>
NoTokens ==
    [github_token |-> Str(""), canvas_token |-> Str(""), redis_uri |-> Str("")]

\* A scalar of auth.yaml: its style and its text.
NoScalar == <<"none", "">>
NoFile(kind) ==
    [kind |-> kind, github |-> NoScalar, canvas |-> NoScalar, redis |-> NoScalar]

\* No Config is made.
CfgIdle ==
    /\ cfg_file = NoFile("absent")
    /\ cfg = NoTokens
    /\ cfg_last = [op |-> "none", existed |-> FALSE]
    /\ cfg_saved = [done |-> FALSE, values |-> NoTokens]
    /\ cfg_exc = "none"

\* build_gitignore_content's locals before its first step.
GiFresh ==
    /\ gi_todo = <<>>
    /\ gi_fetched = <<>>
    /\ final_text = <<>>
    /\ error_occured = FALSE
    /\ gi_prompts = <<>>
    /\ gi_exc = "none"

\* create gitignore is not running.
GiIdle ==
    /\ gi = [call |-> "none"]
    /\ gi_pc = "idle"
    /\ outfile = <<"absent">>
    /\ GiFresh

\* Config and create gitignore are not running.
RestIdle == CfgIdle /\ GiIdle

\* Only the categorizer runs.
NotCatIdle == UrlIdle /\ ApiIdle /\ InvIdle /\ WatchIdle /\ RestIdle

\* One call of categorize on a source without subdirectories.
Init ==
    /\ CatInputs
    /\ srcDirs = {}
    /\ CatLocals
    /\ NotCatIdle

Raise(e) == pc' = "raised" /\ exc' = e

\* ------------------------------------------------------------ actions

\* A plausible slip: the destination is created before the source is checked.
CheckSourceAfterMkdir ==
    /\ pc = "start"
    /\ destKind' = IF destKind = "absent" THEN "dir" ELSE destKind
    /\ IF SourceValid THEN pc' = "names" /\ exc' = exc ELSE Raise("ValueError")
    /\ UNCHANGED <<srcKind, srcFiles, destDirs, destFiles,
                   unique_names, todo_names, files, todo_files, derived,
                   zip_f, errors, relocated, mkdir_calls, initial>>
    /\ UNCHANGED <<srcDirs, runVars, notCat>>

\* lines 95-96: the source precondition.
CheckSource ==
    /\ pc = "start"
    /\ IF SourceValid THEN pc' = "names" /\ exc' = exc ELSE Raise("ValueError")
    /\ UNCHANGED <<srcKind, srcFiles, destKind, destDirs, destFiles,
                   unique_names, todo_names, files, todo_files, derived,
                   zip_f, errors, relocated, mkdir_calls, initial>>
    /\ UNCHANGED <<srcDirs, runVars, notCat>>

\* line 99, get_unique_names (lines 45-67): its own check, the listing, the
\* handles.  The archive it opens is closed by its with-block.
GetUniqueNamesCall ==
    /\ pc = "names"
    /\ IF SourceValid
       THEN /\ unique_names' = GetUniqueNames(NameListing)
            /\ pc' = "dest"
            /\ exc' = exc
       ELSE /\ Raise("ValueError")
            /\ unique_names' = unique_names
    /\ UNCHANGED <<srcKind, srcFiles, destKind, destDirs, destFiles,
                   todo_names, files, todo_files, derived, zip_f, errors,
                   relocated, mkdir_calls, initial>>
    /\ UNCHANGED <<srcDirs, runVars, notCat>>

\* A plausible slip: the elif branch is missing, so a destination that is a
\* regular file is taken for a directory.
CheckDestinationNoElif ==
    /\ pc = "dest"
    /\ \/ /\ destKind = "absent"
          /\ \/ /\ destKind' = "dir"
                /\ mkdir_calls' = CountCall(mkdir_calls, <<>>)
                /\ pc' = "mkdirs"
                /\ todo_names' = unique_names
                /\ exc' = exc
             \/ /\ Raise("OSError")
                /\ UNCHANGED <<destKind, todo_names, mkdir_calls>>
       \/ /\ destKind # "absent"
          /\ pc' = "mkdirs"
          /\ todo_names' = unique_names
          /\ UNCHANGED <<destKind, mkdir_calls, exc>>
    /\ UNCHANGED <<srcKind, srcFiles, destDirs, destFiles, unique_names,
                   files, todo_files, derived, zip_f, errors, relocated,
                   initial>>
    /\ UNCHANGED <<srcDirs, runVars, notCat>>

\* lines 101-105: create the destination if it does not exist (os.mkdir may
\* raise, and nothing catches it); refuse a destination that is not a directory.
CheckDestination ==
    /\ pc = "dest"
    /\ \/ /\ destKind = "absent"
          /\ \/ /\ destKind' = "dir"
                /\ mkdir_calls' = CountCall(mkdir_calls, <<>>)
                /\ pc' = "mkdirs"
                /\ todo_names' = unique_names
                /\ exc' = exc
             \/ /\ Raise("OSError")
                /\ UNCHANGED <<destKind, todo_names, mkdir_calls>>
       \/ /\ destKind = "file"
          /\ Raise("ValueError")
          /\ UNCHANGED <<destKind, todo_names, mkdir_calls>>
       \/ /\ destKind = "dir"
          /\ pc' = "mkdirs"
          /\ todo_names' = unique_names
          /\ UNCHANGED <<destKind, mkdir_calls, exc>>
    /\ UNCHANGED <<srcKind, srcFiles, destDirs, destFiles, unique_names,
                   files, todo_files, derived, zip_f, errors, relocated,
                   initial>>
    /\ UNCHANGED <<srcDirs, runVars, notCat>>

\* os.mkdir(destination/p) can take effect.
MkdirCanSucceed(p) == ~Exists(p) /\ IsDir(Parent(p))

\* A plausible slip: os.mkdir without the os.path.exists test, so that an
\* existing path raises FileExistsError.
MakeHandleDirUnchecked ==
    /\ pc = "mkdirs"
    /\ \E n \in todo_names :
          LET p == PathJoin(<<n>>)
          IN  \/ /\ MkdirCanSucceed(p)
                 /\ destDirs' = destDirs \cup {p}
                 /\ mkdir_calls' = CountCall(mkdir_calls, p)
                 /\ todo_names' = todo_names \ {n}
                 /\ UNCHANGED <<pc, exc>>
              \/ /\ Raise("OSError")
                 /\ UNCHANGED <<destDirs, mkdir_calls, todo_names>>
    /\ UNCHANGED <<srcKind, srcFiles, destKind, destFiles, unique_names,
                   files, todo_files, derived, zip_f, errors, relocated,
                   initial>>
    /\ UNCHANGED <<srcDirs, runVars, notCat>>

\* lines 108-110: one iteration of the mkdir loop, in the arbitrary order of
\* list(set(names)).  os.mkdir may raise, and nothing catches it.
MakeHandleDir ==
    /\ pc = "mkdirs"
    /\ \E n \in todo_names :
          LET p == PathJoin(<<n>>)
          IN  \/ /\ Exists(p)
                 /\ todo_names' = todo_names \ {n}
                 /\ UNCHANGED <<destDirs, mkdir_calls, pc, exc>>
              \/ /\ ~Exists(p)
                 /\ MkdirCanSucceed(p)
                 /\ destDirs' = destDirs \cup {p}
                 /\ mkdir_calls' = CountCall(mkdir_calls, p)
                 /\ todo_names' = todo_names \ {n}
                 /\ UNCHANGED <<pc, exc>>
              \/ /\ ~Exists(p)
                 /\ Raise("OSError")
                 /\ UNCHANGED <<destDirs, mkdir_calls, todo_names>>
    /\ UNCHANGED <<srcKind, srcFiles, destKind, destFiles, unique_names,
                   files, todo_files, derived, zip_f, errors, relocated,
                   initial>>
    /\ UNCHANGED <<srcDirs, runVars, notCat>>

\* A plausible slip: the relocation loop starts while handle directories are
\* still to be made.
ListFilesBeforeMkdirs ==
    /\ pc = "mkdirs"
    /\ zip_f' = IF IsZip THEN "open" ELSE zip_f
    /\ files' = FileListing
    /\ todo_files' = FileListing
    /\ pc' = "loop"
    /\ UNCHANGED <<srcKind, srcFiles, destKind, destDirs, destFiles, exc,
                   unique_names, todo_names, derived, errors, relocated,
                   mkdir_calls, initial>>
    /\ UNCHANGED <<srcDirs, runVars, notCat>>

\* lines 113-119: open the archive (never in a with-block) or list the
\* directory again.
ListFiles ==
    /\ pc = "mkdirs"
    /\ todo_names = {}
    /\ zip_f' = IF IsZip THEN "open" ELSE zip_f
    /\ files' = FileListing
    /\ todo_files' = FileListing
    /\ pc' = "loop"
    /\ UNCHANGED <<srcKind, srcFiles, destKind, destDirs, destFiles, exc,
                   unique_names, todo_names, derived, errors, relocated,
                   mkdir_calls, initial>>
    /\ UNCHANGED <<srcDirs, runVars, notCat>>

\* A plausible slip: every member is extracted into the destination itself.
ExtractDirFlat(n) == <<>>

\* line 132: the directory ZipFile.extract is given.
ExtractDir(n) == PathJoin(<<n>>)

\* A plausible slip: the file is put into the destination itself.
TargetPathFlat(n, raw) == <<raw>>

\* lines 136-137: where os.rename moves the file.
TargetPath(n, raw) == PathJoin(<<n, raw>>)

\* A plausible slip: the member is deleted from the archive once extracted.
SourceAfterExtractAndDelete(raw) == srcFiles \ {raw}

\* lines 114, 130-133: the archive is opened with mode="r" and extract only
\* reads it.
SourceAfterExtract(raw) == srcFiles

\* A plausible slip: shutil.copy in place of os.rename.
SourceAfterCopy(raw) == srcFiles

\* lines 135-138: os.rename takes the file out of the source directory.
SourceAfterRename(raw) == srcFiles \ {raw}

\* os.rename(source/raw, destination/target) can take effect.
RenameCanSucceed(raw, target) ==
    /\ raw \in ListDir
    /\ IsDir(Parent(target))
    /\ target \notin destDirs
    /\ raw \in srcDirs => ~Exists(target)

\* ZipFile.extract(raw, path=destination/dir) can take effect: it creates the
\* missing upper directory itself, then opens the target for writing.
ExtractCanSucceed(raw, dir) ==
    /\ raw \in srcFiles
    /\ destKind = "dir"
    /\ IsDir(dir) \/ ~Exists(dir)
    /\ (dir \o <<raw>>) \notin destDirs

\* What one rename/extract can do: take effect, raise OSError, or (extract
\* only) raise BadZipFile, RuntimeError for an encrypted member or
\* NotImplementedError for an unknown compression method.
RelocateOutcomes(raw, n) ==
    (IF IsZip
     THEN (IF ExtractCanSucceed(raw, ExtractDir(n)) THEN {"ok"} ELSE {}) \cup {"Other"}
     ELSE (IF RenameCanSucceed(raw, TargetPath(n, raw)) THEN {"ok"} ELSE {}))
    \cup {"OSError"}

\* A plausible slip: no try/except around the move.
CaughtNothing(e) == FALSE

\* line 139: except OSError.
Caught(e) == e = "OSError"

\* lines 121-140: one iteration of the relocation loop, in listing order
\* (arbitrary for os.listdir).
Relocate ==
    /\ pc = "loop"
    /\ \E raw \in todo_files :
          LET n == StudentName(raw)
          IN  \E outcome \in RelocateOutcomes(raw, n) :
                 /\ derived' = derived \cup {<<raw, n>>}
                 /\ IF outcome = "ok"
                    THEN /\ IF IsZip
                            THEN /\ destDirs' = (destDirs \cup {ExtractDir(n)}) \ {<<>>}
                                 /\ destFiles' = destFiles \cup {ExtractDir(n) \o <<raw>>}
                                 /\ srcFiles' = SourceAfterExtract(raw)
                                 /\ srcDirs' = srcDirs
                            ELSE /\ srcFiles' = SourceAfterRename(raw)
                                 /\ srcDirs' = srcDirs \ {raw}
                                 /\ destFiles' = IF IsFile(raw)
                                                 THEN destFiles \cup {TargetPath(n, raw)}
                                                 ELSE destFiles
                                 /\ destDirs' = IF IsFile(raw)
                                                THEN destDirs
                                                ELSE destDirs \cup {TargetPath(n, raw)}
                         /\ relocated' = relocated \cup {raw}
                         /\ todo_files' = todo_files \ {raw}
                         /\ UNCHANGED <<errors, pc, exc>>
                    ELSE IF Caught(outcome)
                    THEN /\ errors' = errors \cup {raw}
                         /\ todo_files' = todo_files \ {raw}
                         /\ UNCHANGED <<srcFiles, srcDirs, destDirs,
                                        destFiles, relocated, pc, exc>>
                    ELSE /\ Raise(outcome)
                         /\ UNCHANGED <<srcFiles, srcDirs, destDirs,
                                        destFiles, relocated, errors,
                                        todo_files>>
    /\ UNCHANGED <<srcKind, destKind, unique_names, todo_names, files, zip_f,
                   mkdir_calls, initial>>
    /\ UNCHANGED <<runVars, notCat>>

\* lines 142-143: close the archive and return.
Finish ==
    /\ pc = "loop"
    /\ todo_files = {}
    /\ zip_f' = IF IsZip THEN "closed" ELSE zip_f
    /\ pc' = "returned"
    /\ UNCHANGED <<srcKind, srcFiles, destKind, destDirs, destFiles, exc,
                   unique_names, todo_names, files, todo_files, derived,
                   errors, relocated, mkdir_calls, initial>>
    /\ UNCHANGED <<srcDirs, runVars, notCat>>

Next ==
    \/ CheckSource
    \/ GetUniqueNamesCall
    \/ CheckDestination
    \/ MakeHandleDir
    \/ ListFiles
    \/ Relocate
    \/ Finish

Spec == Init /\ [][Next]_vars

\* ------------------------------------------------- categorize, twice

\* The first call has returned; categorize is called again with the same
\* source and destination, on the file system the first call left.
Rerun ==
    /\ run = 1
    /\ pc = "returned"
    /\ run' = 2
    /\ afterFirst' = [pc |-> pc, exc |-> exc, errors |-> errors,
                      destKind |-> destKind, destDirs |-> destDirs,
                      destFiles |-> destFiles, srcFiles |-> srcFiles]
    /\ pc' = "start"
    /\ exc' = "none"
    /\ unique_names' = {}
    /\ todo_names' = {}
    /\ files' = {}
    /\ todo_files' = {}
    /\ derived' = {}
    /\ zip_f' = "unbound"
    /\ errors' = {}
    /\ relocated' = {}
    /\ mkdir_calls' = [p \in {} |-> 0]
    /\ initial' = [srcFiles |-> srcFiles, srcDirs |-> srcDirs,
                   destKind |-> destKind, destDirs |-> destDirs,
                   destFiles |-> destFiles]
    /\ UNCHANGED <<srcKind, srcFiles, srcDirs, destKind, destDirs, destFiles>>
    /\ UNCHANGED notCat

NextTwice ==
    \/ CheckSource
    \/ GetUniqueNamesCall
    \/ CheckDestination
    \/ MakeHandleDir
    \/ ListFiles
    \/ Relocate
    \/ Finish
    \/ Rerun

SpecTwice == Init /\ [][NextTwice]_vars

\* ------------------------- categorize, a directory with subdirectories

\* The subdirectories a source directory of at most MaxFiles entries can
\* hold beside the regular files fs.
SubdirSets(fs) ==
    {d \in Batches : d \cap fs = {} /\ Cardinality(d \cup fs) <= MaxFiles}

\* One call of categorize on a directory that may hold subdirectories.
InitSubdirs ==
    /\ srcKind = "dir"
    /\ CatInputs
    /\ srcDirs \in SubdirSets(srcFiles)
    /\ CatLocals
    /\ NotCatIdle

SpecSubdirs == InitSubdirs /\ [][Next]_vars

\* ------------------- categorize while another process changes the source

\* Another process removes a file from the source directory or adds one to
\* it, after get_unique_names has listed it: before or after categorize's
\* own listing.  The directory never holds more than MaxFiles names.
SourceChange ==
    /\ srcKind = "dir"
    /\ pc \in {"dest", "mkdirs", "loop"}
    /\ \/ \E f \in srcFiles : srcFiles' = srcFiles \ {f}
       \/ \E g \in Names \ srcFiles :
             /\ Cardinality(srcFiles \cup initial.srcFiles \cup relocated \cup {g}) <= MaxFiles
             /\ srcFiles' = srcFiles \cup {g}
    /\ UNCHANGED <<srcKind, destKind, destDirs, destFiles, pc, exc,
                   unique_names, todo_names, files, todo_files, derived,
                   zip_f, errors, relocated, mkdir_calls, initial>>
    /\ UNCHANGED <<srcDirs, runVars, notCat>>

\* One call of categorize on a directory.
InitConcurrent ==
    /\ srcKind = "dir"
    /\ CatInputs
    /\ srcDirs = {}
    /\ CatLocals
    /\ NotCatIdle

NextConcurrent ==
    \/ CheckSource
    \/ GetUniqueNamesCall
    \/ CheckDestination
    \/ MakeHandleDir
    \/ ListFiles
    \/ Relocate
    \/ Finish
    \/ SourceChange

SpecConcurrent == InitConcurrent /\ [][NextConcurrent]_vars

\* ------------------------------------------- parse_url_for_course_id

MaxUrlLen == 4

\* The atoms of a URL: the separators urlparse and split look at, the word
\* "courses", and "x" for any other run of characters.
UrlAtoms == {"/", "courses", "x", "?", "#", ";"}

Urls == UNION {[1..k -> UrlAtoms] : k \in 0..MaxUrlLen}

\* The categorizer is not running.
CatIdle ==
    /\ srcKind = "absent"
    /\ srcFiles = {}
    /\ srcDirs = {}
    /\ destKind = "absent"
    /\ destDirs = {}
    /\ destFiles = {}
    /\ pc = "idle"
    /\ CatFresh

Least(S) == CHOOSE i \in S : \A j \in S : i <= j
Greatest(S) == CHOOSE i \in S : \A j \in S : i >= j

\* urlparse's split of fragment and query: the URL up to its first "#" or "?".
BeforeQuery(u) ==
    LET stops == {i \in 1..Len(u) : u[i] \in {"?", "#"}}
    IN  IF stops = {} THEN u ELSE SubSeq(u, 1, Least(stops) - 1)

\* urlparse's split of parameters: the first ";" of the last segment ends
\* the path.
BeforeParams(p) ==
    LET lastSlash == Greatest({0} \cup {i \in 1..Len(p) : p[i] = "/"})
        semis == {i \in (lastSlash + 1)..Len(p) : p[i] = ";"}
    IN  IF semis = {} THEN p ELSE SubSeq(p, 1, Least(semis) - 1)

\* line 20, urlparse(url).path.
UrlPath(u) == BeforeParams(BeforeQuery(u))

\* str.split(sep): the tokens between separators, never an empty list.
RECURSIVE SplitOn(_, _)
SplitOn(s, sep) ==
    LET at == {i \in 1..Len(s) : s[i] = sep}
    IN  IF at = {} THEN <<s>>
        ELSE LET k == CHOOSE i \in at : \A j \in at : i <= j
             IN  <<SubSeq(s, 1, k - 1)>> \o SplitOn(SubSeq(s, k + 1, Len(s)), sep)

\* lines 23-31 on a token list: list.index("courses") is the first position
\* holding the word (ValueError when there is none), and the next token is
\* returned unless the word is the last token.
CourseIdOf(tokens) ==
    LET found == {i \in 1..Len(tokens) : tokens[i] = <<"courses">>}
    IN  IF found = {} THEN None
        ELSE LET course_kw_pos == CHOOSE i \in found : \A j \in found : i <= j
             IN  IF Len(tokens) <= course_kw_pos THEN None
                 ELSE Some(tokens[course_kw_pos + 1])

\* A plausible slip: url.split("/") without urlparse.
ParseUrlWithoutUrlparse(u) == CourseIdOf(SplitOn(u, "/"))

\* lines 18-31: parse_url_for_course_id.
ParseUrlForCourseId(u) == CourseIdOf(SplitOn(UrlPath(u), "/"))

InitUrl ==
    /\ CatIdle
    /\ RestIdle
    /\ ApiIdle
    /\ InvIdle
    /\ WatchIdle
    /\ url \in Urls
    /\ course_id = Unset

\* The call of parse_url_for_course_id.
ParseUrl ==
    /\ course_id = Unset
    /\ course_id' = ParseUrlForCourseId(url)
    /\ UNCHANGED <<url, notUrl>>

NextUrl == ParseUrl

SpecUrl == InitUrl /\ [][NextUrl]_vars

\* ---------------------------------------------------------- CanvasApi

MaxNodes == 3
MaxGroupSets == 2

SeqsUpTo(S, n) == UNION {[1..k -> S] : k \in 0..n}

\* res.status_code
StatusCodes == {200, 401, 500}

\* response_data["data"]["course"]: the course, or null when Canvas does not
\* show the course to the token.
Courses == {"course", "null"}

\* One node of enrollmentsConnection; "null" is JSON null.
Roles == {"student", "teacher", "ta"}
Emails == {"st000001", "st000002", "null"}
EnrollmentNodes == [user : [email : Emails], sisRole : Roles]

\* One node of groupSetsConnection, with the groups of the test response.
RawMember(n, e) == [user |-> [name |-> n, email |-> e]]
RawGroup1 ==
    [name |-> "test-team-1",
     membersConnection |-> [nodes |-> <<RawMember("Rufus Bobcat", "rb000001")>>]]
RawGroup2 ==
    [name |-> "test-team-2",
     membersConnection |-> [nodes |-> <<RawMember("Rufus Bobcat2", "rb000002"),
                                       RawMember("Rufus Bobcat4", "rb000003")>>]]
RawGroupLists == {<<>>, <<RawGroup1>>, <<RawGroup2>>, <<RawGroup1, RawGroup2>>}
GroupSetNames == {"Term Project Teams", "Homework 1"}
RawGroupSets == [name : GroupSetNames, groupsConnection : [nodes : RawGroupLists]]

\* What a call ends with.
Return(v) == [ret |-> v, exc |-> "none"]
RaiseOut(e) == [ret |-> Unset, exc |-> e]

\* A plausible slip: the email is not looked at.
IsStudentByRoleOnly(member) == member.sisRole = "student"

\* lines 222-225: the test in the loop of get_students.
IsStudent(member) ==
    member.sisRole = "student" /\ member.user.email # "null"

\* lines 219-227: the loop that appends the members passing the test.
RECURSIVE Students(_)
Students(course_members) ==
    IF course_members = <<>> THEN <<>>
    ELSE (IF IsStudent(Head(course_members)) THEN <<Head(course_members)>> ELSE <<>>)
         \o Students(Tail(course_members))

\* lines 214-229: get_students on a response.  Subscripting a null course
\* raises TypeError.
GetStudentsOn(res) ==
    IF res.status_code = 200
    THEN IF res.course = "null" THEN RaiseOut("TypeError")
         ELSE Return(Some(Students(res.nodes)))
    ELSE Return(None)

\* lines 329-335: GroupMember(name=..., email=...)
GroupMemberOf(raw_member) ==
    [name |-> raw_member.user.name, email |-> raw_member.user.email]

\* lines 327-336: Group(name=..., members=...)
GroupOf(raw_group) ==
    [name |-> raw_group.name,
     members |-> [i \in 1..Len(raw_group.membersConnection.nodes) |->
                    GroupMemberOf(raw_group.membersConnection.nodes[i])]]

\* lines 325-337: GroupSet(name=..., groups=...)
GroupSetOf(groupset) ==
    [name |-> groupset.name,
     groups |-> [i \in 1..Len(groupset.groupsConnection.nodes) |->
                   GroupOf(groupset.groupsConnection.nodes[i])]]

\* lines 318-341: get_groupsets on a response.
GetGroupsetsOn(res) ==
    IF res.status_code = 200
    THEN IF res.course = "null" THEN RaiseOut("TypeError")
         ELSE Return(Some([i \in 1..Len(res.nodes) |-> GroupSetOf(res.nodes[i])]))
    ELSE Return(None)

\* A plausible slip: the loop does not stop at the first match.
LastGroupsNamed(groupsets, groupset_name) ==
    LET found == {i \in 1..Len(groupsets) : groupsets[i].name = groupset_name}
    IN  IF found = {} THEN None ELSE Some(groupsets[Greatest(found)].groups)

\* lines 350-353: the groups of the first group set with the name.
GroupsNamed(groupsets, groupset_name) ==
    LET found == {i \in 1..Len(groupsets) : groupsets[i].name = groupset_name}
    IN  IF found = {} THEN None ELSE Some(groupsets[Least(found)].groups)

\* lines 343-353: get_groups_by_groupset_name on a response.
GetGroupsByGroupsetNameOn(res, groupset_name) ==
    LET groupsets == GetGroupsetsOn(res)
    IN  IF groupsets.exc # "none" THEN groupsets
        ELSE IF groupsets.ret = None THEN Return(None)
        ELSE Return(GroupsNamed(groupsets.ret[2], groupset_name))

\* A call of get_students or of get_groups_by_groupset_name, and the
\* response requests.post will give it.
InitCanvasApi ==
    /\ CatIdle
    /\ RestIdle
    /\ UrlIdle
    /\ InvIdle
    /\ WatchIdle
    /\ \/ /\ api_call = [op |-> "get_students"]
          /\ response \in [status_code : StatusCodes, course : Courses,
                            nodes : SeqsUpTo(EnrollmentNodes, MaxNodes)]
       \/ /\ api_call \in [op : {"get_groups_by_groupset_name"},
                            groupset_name : GroupSetNames]
          /\ response \in [status_code : StatusCodes, course : Courses,
                            nodes : SeqsUpTo(RawGroupSets, MaxGroupSets)]
    /\ api_return = Unset
    /\ api_raised = "none"

ApiPending == api_return = Unset /\ api_raised = "none"

\* lines 182-229: CanvasApi.get_students.
GetStudents ==
    /\ api_call.op = "get_students"
    /\ ApiPending
    /\ api_return' = GetStudentsOn(response).ret
    /\ api_raised' = GetStudentsOn(response).exc
    /\ UNCHANGED <<api_call, response, notApi>>

\* lines 343-353: CanvasApi.get_groups_by_groupset_name.
GetGroupsByGroupsetName ==
    /\ api_call.op = "get_groups_by_groupset_name"
    /\ ApiPending
    /\ api_return' = GetGroupsByGroupsetNameOn(response, api_call.groupset_name).ret
    /\ api_raised' = GetGroupsByGroupsetNameOn(response, api_call.groupset_name).exc
    /\ UNCHANGED <<api_call, response, notApi>>

NextCanvasApi ==
    \/ GetStudents
    \/ GetGroupsByGroupsetName

SpecCanvasApi == InitCanvasApi /\ [][NextCanvasApi]_vars

\* ----------------------------------------------------- create gh-invite

MaxInvitees == 2
MaxLines == 3

\* TEAM_PATH with no, one and two "/".
TeamPaths ==
    {<<"org">>, <<"org", "/", "team">>, <<"org", "/", "team", "/", "x">>}

\* --from-canvas-course: absent, a course id, or a URL whose first atom
\* "http" stands for its scheme and host.
CanvasCourseArgs ==
    {None, <<"x">>, <<"http", "/", "courses", "/", "x">>,
     <<"http", "/", "courses", "/">>, <<"http", "/", "x">>}

\* --from-file: absent, stdin, or a file name.
FromFileArgs == {None, <<"-">>, <<"emails.txt">>}

\* Lines of the file: " " is any white space (the line end included), "a" and
\* "b" are addresses.
FileLines ==
    {<<"a">>, <<" ", "b", " ">>, <<>>, <<" ">>, <<"#", "a">>,
     <<" ", "#", "b">>, <<"a", " ", "#">>}

NoResponse == [status_code |-> 0]

\* The arguments of one run, with the response Canvas will give or the lines
\* the file holds.
InviteInputs ==
    [team_path : TeamPaths,
     from_canvas_course : CanvasCourseArgs \ {None},
     from_file : {None, <<"emails.txt">>},
     dry_run : BOOLEAN,
     response : [status_code : {200, 401}, course : Courses,
                 nodes : SeqsUpTo(EnrollmentNodes, MaxInvitees)],
     lines : {<<>>}]
    \cup
    [team_path : TeamPaths,
     from_canvas_course : {None},
     from_file : FromFileArgs,
     dry_run : BOOLEAN,
     response : {NoResponse},
     lines : SeqsUpTo(FileLines, MaxLines)]

\* str.strip(): white space taken off both ends.
RECURSIVE LStrip(_)
LStrip(line) ==
    IF line # <<>> /\ Head(line) = " " THEN LStrip(Tail(line)) ELSE line

RECURSIVE RStrip(_)
RStrip(line) ==
    IF line # <<>> /\ line[Len(line)] = " "
    THEN RStrip(SubSeq(line, 1, Len(line) - 1))
    ELSE line

Strip(line) == RStrip(LStrip(line))

\* lines 292-297: the stripped lines that are neither empty nor comments.
RECURSIVE EmailLines(_)
EmailLines(file_obj) ==
    IF file_obj = <<>> THEN <<>>
    ELSE LET line == Strip(Head(file_obj))
         IN  (IF Len(line) = 0 \/ line[1] = "#" THEN <<>> ELSE <<line>>)
             \o EmailLines(Tail(file_obj))

\* line 282: the addresses of the students.
StudentEmails(students) == [i \in 1..Len(students) |-> students[i].user.email]

\* lines 265-274: the course id asked of Canvas, None when a URL has none.
CourseIdArg(from_canvas_course) ==
    IF Head(from_canvas_course) = "http"
    THEN ParseUrlForCourseId(Tail(from_canvas_course))
    ELSE Some(from_canvas_course)

InitInvite ==
    /\ CatIdle
    /\ RestIdle
    /\ UrlIdle
    /\ ApiIdle
    /\ WatchIdle
    /\ inv \in InviteInputs
    /\ inv_pc = "start"
    /\ email_addresses = <<>>
    /\ team_id = "unset"
    /\ dry_lines = <<>>
    /\ invite_calls = <<>>
    /\ canvas_queries = <<>>
    /\ inv_exc = "none"

\* ctx.exit(1)
Exit1 == inv_pc' = "exit1" /\ inv_exc' = inv_exc

\* An exception nothing catches.
InvRaise(e) == inv_pc' = "raised" /\ inv_exc' = e

\* lines 248-303: the messages about the team path and the options (which
\* stop nothing), then the addresses from Canvas or from the file.  open()
\* may raise OSError and a null course raises TypeError in get_students.
CollectEmails ==
    /\ inv_pc = "start"
    /\ IF inv.from_canvas_course # None
       THEN LET id == CourseIdArg(inv.from_canvas_course)
                students == GetStudentsOn(inv.response)
            IN  IF id = None
                THEN Exit1 /\ UNCHANGED <<email_addresses, canvas_queries>>
                ELSE /\ canvas_queries' = Append(canvas_queries, id[2])
                     /\ IF students.exc # "none"
                        THEN InvRaise(students.exc) /\ UNCHANGED email_addresses
                        ELSE IF students.ret = None
                        THEN Exit1 /\ UNCHANGED email_addresses
                        ELSE /\ email_addresses' = StudentEmails(students.ret[2])
                             /\ inv_pc' = "team"
                             /\ inv_exc' = inv_exc
       ELSE IF inv.from_file # None
       THEN \/ /\ email_addresses' = EmailLines(inv.lines)
               /\ inv_pc' = "team"
               /\ UNCHANGED <<canvas_queries, inv_exc>>
            \/ /\ inv.from_file # <<"-">>
               /\ InvRaise("OSError")
               /\ UNCHANGED <<email_addresses, canvas_queries>>
       ELSE Exit1 /\ UNCHANGED <<email_addresses, canvas_queries>>
    /\ UNCHANGED <<inv, team_id, dry_lines, invite_calls, notInv>>

\* lines 305-313 and 328-332: the team's id is asked of GitHub, which gives
\* an id, gives None, or raises PermissionError (caught: a message, and the
\* command returns).
GetTeamId ==
    /\ inv_pc = "team"
    /\ \/ team_id' = "id" /\ inv_pc' = "invite"
       \/ team_id' = "None" /\ inv_pc' = "exit1"
       \/ team_id' = team_id /\ inv_pc' = "done"
    /\ UNCHANGED <<inv, email_addresses, dry_lines, invite_calls,
                   canvas_queries, inv_exc, notInv>>

\* A plausible slip: the invitations are sent whatever --dry-run says.
InviteAlways ==
    /\ inv_pc = "invite"
    /\ invite_calls' = Append(invite_calls, email_addresses)
    /\ inv_pc' = "done"
    /\ UNCHANGED <<inv, email_addresses, team_id, dry_lines, canvas_queries,
                   inv_exc, notInv>>

\* lines 317-326: the team path is unpacked into two parts (ValueError when
\* it has not exactly one "/"), then the invitations are sent, or with
\* --dry-run one line is printed for each address.  A PermissionError out of
\* bulk_invite_to_org is caught, and the command returns either way.
Invite ==
    /\ inv_pc = "invite"
    /\ IF Len(SplitOn(inv.team_path, "/")) # 2
       THEN InvRaise("ValueError") /\ UNCHANGED <<invite_calls, dry_lines>>
       ELSE /\ inv_pc' = "done"
            /\ inv_exc' = inv_exc
            /\ IF ~inv.dry_run
               THEN /\ invite_calls' = Append(invite_calls, email_addresses)
                    /\ dry_lines' = dry_lines
               ELSE /\ dry_lines' = email_addresses
                    /\ invite_calls' = invite_calls
    /\ UNCHANGED <<inv, email_addresses, team_id, canvas_queries, notInv>>

NextInvite ==
    \/ CollectEmails
    \/ GetTeamId
    \/ Invite

SpecInvite == InitInvite /\ [][NextInvite]_vars

\* -------------------------------------------------------------- watcher

MaxSuffixes == 2
MaxEvents == 3

\* A file name is its dot-separated parts: a stem "x" without a dot, then
\* the parts that follow each dot.
SuffixParts == {"7z", "zip", "tar", "gz", "xz", "rar", "txt"}
WatchNames == {<<"x">> \o parts : parts \in SeqsUpTo(SuffixParts, MaxSuffixes)}

\* The name as a string of atoms, "." being one.
RECURSIVE Join(_)
Join(strings) ==
    IF strings = <<>> THEN <<>> ELSE Head(strings) \o Join(Tail(strings))

\* Path.suffixes: one string for each dot of the name.
Suffixes(name) == [i \in 1..(Len(name) - 1) |-> <<".", name[i + 1]>>]

NameString(name) == <<name[1]>> \o Join(Suffixes(name))

\* lines 103-110
archive_suffixes ==
    {<<".", "7z">>, <<".", "zip">>, <<".", "tar">>, <<".", "tar", ".", "gz">>,
     <<".", "tar", ".", "xz">>, <<".", "rar">>}

EndsWith(string, suffix) ==
    /\ Len(suffix) <= Len(string)
    /\ SubSeq(string, Len(string) - Len(suffix) + 1, Len(string)) = suffix

\* line 111: the patterns "*<suffix>" that PatternMatchingEventHandler
\* matches an event's path against before it calls a handler.
Dispatched(name) ==
    \E suffix \in archive_suffixes : EndsWith(NameString(name), suffix)

\* A plausible slip: 7z is run without looking at the target folder.
ExtractEffectsUnchecked ==
    {[target |-> t, ran |-> TRUE, exc |-> "none"] :
         t \in {w_target} \cup (IF w_target = "absent" THEN {"dir"} ELSE {})}
    \cup {[target |-> w_target, ran |-> TRUE, exc |-> "OSError"]}

\* What extract(path) can do (lines 57-98): nothing when the target folder
\* is a directory; otherwise 7z is run, which succeeds, fails with
\* CalledProcessError (caught) or cannot be started (OSError, not caught),
\* and may have made the target folder.
ExtractEffects ==
    IF w_target = "dir"
    THEN {[target |-> "dir", ran |-> FALSE, exc |-> "none"]}
    ELSE {[target |-> t, ran |-> TRUE, exc |-> "none"] :
              t \in {w_target} \cup (IF w_target = "absent" THEN {"dir"} ELSE {})}
         \cup {[target |-> w_target, ran |-> TRUE, exc |-> "OSError"]}

\* The watcher has started (lines 167-187: 7z is there, so the platform is
\* Linux or Windows) and will get events about one path.
InitWatch ==
    /\ CatIdle
    /\ RestIdle
    /\ UrlIdle
    /\ ApiIdle
    /\ InvIdle
    /\ w_platform \in {"linux", "windows"}
    /\ w_name \in WatchNames
    /\ w_target \in {"absent", "dir", "file"}
    /\ w_last = NoEvent
    /\ w_sevenz = 0
    /\ w_events = 0
    /\ w_exc = "none"

\* The observer thread is alive and the event's path matches a pattern.
Handles ==
    /\ w_exc = "none"
    /\ w_events < MaxEvents
    /\ Dispatched(w_name)

Handled(handler, is_directory, extract, ran) ==
    /\ w_last' = [handler |-> handler, is_directory |-> is_directory,
                  extract |-> extract, ran |-> ran]
    /\ w_events' = w_events + 1
    /\ w_sevenz' = w_sevenz + (IF ran THEN 1 ELSE 0)

\* lines 115-124: the folder branch reads src_path, which only the file
\* branch binds.
OnCreated ==
    /\ Handles
    /\ \E is_directory \in BOOLEAN :
          /\ Handled("on_created", is_directory, FALSE, FALSE)
          /\ w_exc' = IF is_directory THEN "UnboundLocalError" ELSE w_exc
    /\ UNCHANGED <<w_platform, w_name, w_target, notWatch>>

\* lines 126-136: a closed file is extracted, whatever its name.
OnClosed ==
    /\ Handles
    /\ \E e \in ExtractEffects :
          /\ Handled("on_closed", FALSE, TRUE, e.ran)
          /\ w_target' = e.target
          /\ w_exc' = e.exc
    /\ UNCHANGED <<w_platform, w_name, notWatch>>

\* lines 138-155: a moved file is extracted when its suffixes, joined, are
\* one of archive_suffixes.
OnMoved ==
    /\ Handles
    /\ \E is_directory \in BOOLEAN :
          IF ~is_directory /\ Join(Suffixes(w_name)) \in archive_suffixes
          THEN \E e \in ExtractEffects :
                  /\ Handled("on_moved", is_directory, TRUE, e.ran)
                  /\ w_target' = e.target
                  /\ w_exc' = e.exc
          ELSE /\ Handled("on_moved", is_directory, FALSE, FALSE)
               /\ UNCHANGED <<w_target, w_exc>>
    /\ UNCHANGED <<w_platform, w_name, notWatch>>

NextWatch ==
    \/ OnCreated
    \/ OnClosed
    \/ OnMoved

SpecWatch == InitWatch /\ [][NextWatch]_vars

\* --------------------------------------------------------------- Config

\* Token texts: empty, an ordinary token, texts that a plain YAML scalar
\* would read as an int, a bool or null, and a text with ": " in it.
TokenTexts == {"", "fake-token", "123", "true", "a: b"}

\* The tag the YAML resolver gives a plain scalar with this text.
PlainResolve(text) ==
    CASE text = "123" -> "int"
      [] text = "true" -> "bool"
      [] text = "" -> "null"
      [] OTHER -> "str"

\* The text can be written as a plain scalar in a block mapping.
PlainAllowed(text) == text \notin {"", "a: b"}

\* A plausible slip: every string is written as a plain scalar.
DumpPlain(value) == <<"plain", value[2]>>

\* line 65, yaml.dump of one value: a str is written plain only when a plain
\* scalar is allowed and would be read back as a str; it is quoted otherwise.
Dump(value) ==
    IF value[1] # "str" THEN <<"plain", value[2]>>
    ELSE IF PlainAllowed(value[2]) /\ PlainResolve(value[2]) = "str"
    THEN <<"plain", value[2]>>
    ELSE <<"quoted", value[2]>>

\* line 50, yaml.load of one scalar: a quoted scalar is a str, a plain one is
\* what the resolver says.
Load(scalar) ==
    IF scalar[1] = "quoted" THEN Str(scalar[2])
    ELSE <<PlainResolve(scalar[2]), scalar[2]>>

\* lines 56-65: the document save() writes.
SavedFile(values) ==
    [kind |-> "doc", github |-> Dump(values.github_token),
     canvas |-> Dump(values.canvas_token), redis |-> Dump(values.redis_uri)]

\* lines 48-54: the values restore() reads.
Restored(file) ==
    [github_token |-> Load(file.github), canvas_token |-> Load(file.canvas),
     redis_uri |-> Load(file.redis)]

\* lines 39-46: len(value) != 0, for a str.
HasToken(value) == value[2] # ""

\* An auth.yaml written by hand, with plain scalars.
HandWritten ==
    [kind |-> "doc", github |-> <<"plain", "fake-token">>,
     canvas |-> <<"plain", "123">>, redis |-> <<"quoted", "">>]

\* The config_dir before the first Config is made.
InitConfig ==
    /\ CatIdle
    /\ UrlIdle
    /\ ApiIdle
    /\ InvIdle
    /\ WatchIdle
    /\ GiIdle
    /\ cfg_file \in {NoFile("absent"), NoFile("malformed"), HandWritten}
    /\ cfg = NoTokens
    /\ cfg_last = [op |-> "none", existed |-> FALSE]
    /\ cfg_saved = [done |-> FALSE, values |-> NoTokens]
    /\ cfg_exc = "none"

\* lines 14-37: Config(config_dir).  mkdir may raise OSError; an auth.yaml
\* that exists is restored (a malformed one raises), one that does not is
\* written with the empty values.
Construct ==
    /\ cfg_exc = "none"
    /\ \/ /\ cfg_exc' = "OSError"
          /\ UNCHANGED <<cfg_file, cfg, cfg_last>>
       \/ /\ cfg_file.kind = "doc"
          /\ cfg' = Restored(cfg_file)
          /\ cfg_last' = [op |-> "construct", existed |-> TRUE]
          /\ UNCHANGED <<cfg_file, cfg_exc>>
       \/ /\ cfg_file.kind = "malformed"
          /\ cfg_exc' = "TypeError"
          /\ UNCHANGED <<cfg_file, cfg, cfg_last>>
       \/ /\ cfg_file.kind = "absent"
          /\ cfg' = NoTokens
          /\ cfg_file' = SavedFile(NoTokens)
          /\ cfg_last' = [op |-> "construct", existed |-> FALSE]
          /\ UNCHANGED cfg_exc
    /\ UNCHANGED <<cfg_saved, notCfg>>

\* The three attributes are assigned str values.
SetTokens ==
    /\ cfg_exc = "none"
    /\ cfg_last.op # "none"
    /\ \E g \in TokenTexts, c \in TokenTexts, r \in TokenTexts :
          cfg' = [github_token |-> Str(g), canvas_token |-> Str(c),
                  redis_uri |-> Str(r)]
    /\ cfg_last' = [op |-> "set", existed |-> cfg_last.existed]
    /\ UNCHANGED <<cfg_file, cfg_saved, cfg_exc, notCfg>>

\* lines 56-65: save(), which may fail to write.
Save ==
    /\ cfg_exc = "none"
    /\ cfg_last.op # "none"
    /\ \/ /\ cfg_file' = SavedFile(cfg)
          /\ cfg_saved' = [done |-> TRUE, values |-> cfg]
          /\ cfg_last' = [op |-> "save", existed |-> cfg_last.existed]
          /\ UNCHANGED cfg_exc
       \/ /\ cfg_exc' = "OSError"
          /\ UNCHANGED <<cfg_file, cfg_saved, cfg_last>>
    /\ UNCHANGED <<cfg, notCfg>>

NextConfig ==
    \/ Construct
    \/ SetTokens
    \/ Save

SpecConfig == InitConfig /\ [][NextConfig]_vars

\* ----------------------------------------------------- create gitignore

MaxNames == 2
MaxBases == 1

\* NAMES: two spellings of an alias, and a path that is no alias.
GiNames == {"python", "Python", "Foo"}

\* --base: a blank, an alias and a path that is no alias.
GiBases == {"", "Python", "Foo"}

\* str.lower()
Lower(name) ==
    CASE name = "Python" -> "python"
      [] name = "Foo" -> "foo"
      [] OTHER -> name

\* lines 27-47, for the names used here.
ALIASES ==
    [name \in {"windows", "macos", "python"} |->
        CASE name = "windows" -> "Global/Windows.gitignore"
          [] name = "macos" -> "Global/macOS.gitignore"
          [] OTHER -> "Python.gitignore"]

\* line 75: ALIASES.get(name.lower(), name)
PathOf(name) ==
    IF Lower(name) \in DOMAIN ALIASES THEN ALIASES[Lower(name)] ELSE name

Has(list, x) == \E i \in 1..Len(list) : list[i] = x

\* line 148: the bases that are not blank.
RECURSIVE NonBlank(_)
NonBlank(bases) ==
    IF bases = <<>> THEN <<>>
    ELSE (IF Head(bases) = "" THEN <<>> ELSE <<Head(bases)>>) \o NonBlank(Tail(bases))

\* lines 61-64: the default bases, or the bases in lower case.
LowerBases(bases) ==
    IF bases = None THEN <<"windows", "macos">>
    ELSE [i \in 1..Len(bases) |-> Lower(bases[i])]

\* A plausible slip: the names are compared with the bases as they are typed.
RECURSIVE NamesNotInTyped(_, _)
NamesNotInTyped(names, bases) ==
    IF names = <<>> THEN <<>>
    ELSE (IF Has(bases, Head(names)) THEN <<>> ELSE <<Head(names)>>)
         \o NamesNotInTyped(Tail(names), bases)

\* line 67: [name for name in names if name.lower() not in bases]
RECURSIVE NamesNotIn(_, _)
NamesNotIn(names, bases) ==
    IF names = <<>> THEN <<>>
    ELSE (IF Has(bases, Lower(Head(names))) THEN <<>> ELSE <<Head(names)>>)
         \o NamesNotIn(Tail(names), bases)

\* lines 82-84: what one fetched entry adds to final_text.
Entry(path) == <<<<"header", path>>, <<"body", path>>>>

\* The arguments of build_gitignore_content called by itself.
BuildInputs ==
    [call : {"function"},
     names : SeqsUpTo(GiNames, MaxNames),
     bases : {None} \cup SeqsUpTo(GiBases, MaxBases),
     list_mapping : {FALSE},
     outfile_exists : {FALSE}]

\* The arguments of create gitignore, and whether the output file exists.
GitignoreInputs ==
    [call : {"command"},
     names : SeqsUpTo(GiNames, MaxNames),
     bases : SeqsUpTo(GiBases, MaxBases),
     list_mapping : {FALSE},
     outfile_exists : BOOLEAN]
    \cup
    [call : {"command"}, names : {<<>>}, bases : {<<>>},
     list_mapping : {TRUE}, outfile_exists : BOOLEAN]

OthersIdleForGi ==
    /\ CatIdle
    /\ UrlIdle
    /\ ApiIdle
    /\ InvIdle
    /\ WatchIdle
    /\ CfgIdle

InitBuild ==
    /\ OthersIdleForGi
    /\ gi \in BuildInputs
    /\ gi_pc = "build"
    /\ outfile = <<"absent">>
    /\ GiFresh

InitGitignore ==
    /\ OthersIdleForGi
    /\ gi \in GitignoreInputs
    /\ gi_pc = "start"
    /\ outfile = IF gi.outfile_exists THEN <<"old">> ELSE <<"absent">>
    /\ GiFresh

\* click.confirm(..., abort=True): the answer, and Abort when it is no.
Confirm(prompt, answer, next) ==
    /\ gi_prompts' = Append(gi_prompts, <<prompt, answer>>)
    /\ gi_pc' = IF answer THEN next ELSE "aborted"

\* lines 135-163: --list-mapping prints the aliases and exits; otherwise the
\* plan is shown and "Do you want to continue?" is asked.
GiStart ==
    /\ gi_pc = "start"
    /\ IF gi.list_mapping
       THEN gi_pc' = "exit0" /\ UNCHANGED gi_prompts
       ELSE \E answer \in BOOLEAN : Confirm("continue", answer, "build")
    /\ UNCHANGED <<gi, gi_todo, gi_fetched, final_text, error_occured,
                   outfile, gi_exc, notGi>>

\* lines 61-70 (and line 148 in the command): the list of names to fetch.
BuildStart ==
    /\ gi_pc = "build"
    /\ LET bases == LowerBases(IF gi.call = "command"
                               THEN NonBlank(gi.bases) ELSE gi.bases)
       IN  gi_todo' = bases \o NamesNotIn(gi.names, bases)
    /\ gi_pc' = "fetch"
    /\ UNCHANGED <<gi, gi_fetched, final_text, error_occured, gi_prompts,
                   outfile, gi_exc, notGi>>

\* lines 72-92: one fetch.  Status 200 adds the header and the body, another
\* status sets error_occured, a RequestException becomes ApiError, which the
\* command turns into ctx.fail.
Fetch ==
    /\ gi_pc = "fetch"
    /\ gi_todo # <<>>
    /\ LET name == Head(gi_todo)
           path == PathOf(name)
       IN  \/ \E status \in {200, 404} :
                /\ gi_fetched' = Append(gi_fetched,
                        [name |-> name, path |-> path, status |-> status])
                /\ final_text' = IF status = 200 THEN final_text \o Entry(path)
                                 ELSE final_text
                /\ error_occured' = (error_occured \/ status # 200)
                /\ gi_todo' = Tail(gi_todo)
                /\ UNCHANGED <<gi_pc, gi_exc>>
           \/ /\ gi_exc' = "ApiError"
              /\ gi_pc' = IF gi.call = "command" THEN "failed" ELSE "raised"
              /\ UNCHANGED <<gi_fetched, final_text, error_occured, gi_todo>>
    /\ UNCHANGED <<gi, gi_prompts, outfile, notGi>>

\* line 93: return final_text, error_occured
BuildReturn ==
    /\ gi_pc = "fetch"
    /\ gi_todo = <<>>
    /\ gi_pc' = IF gi.call = "command" THEN "built" ELSE "returned"
    /\ UNCHANGED <<gi, gi_todo, gi_fetched, final_text, error_occured,
                   gi_prompts, outfile, gi_exc, notGi>>

\* lines 167-172: the question asked when a fetch failed.
ErrorPrompt ==
    /\ gi_pc = "built"
    /\ IF error_occured
       THEN \E answer \in BOOLEAN : Confirm("failed to fetch", answer, "check")
       ELSE gi_pc' = "check" /\ UNCHANGED gi_prompts
    /\ UNCHANGED <<gi, gi_todo, gi_fetched, final_text, error_occured,
                   outfile, gi_exc, notGi>>

\* A plausible slip: the answer to the overwrite question is not looked at.
CheckOutfileAnyAnswer ==
    /\ gi_pc = "check"
    /\ IF outfile # <<"absent">>
       THEN \E ans \in BOOLEAN :
               /\ gi_prompts' = Append(gi_prompts, <<"overwrite", ans>>)
               /\ gi_pc' = "write"
       ELSE gi_pc' = "write" /\ UNCHANGED gi_prompts
    /\ UNCHANGED <<gi, gi_todo, gi_fetched, final_text, error_occured,
                   outfile, gi_exc, notGi>>

\* lines 178-182: the overwrite question, and exit when the answer is no.
CheckOutfile ==
    /\ gi_pc = "check"
    /\ IF outfile # <<"absent">>
       THEN \E ans \in BOOLEAN :
               /\ gi_prompts' = Append(gi_prompts, <<"overwrite", ans>>)
               /\ gi_pc' = IF ans THEN "write" ELSE "exit0"
       ELSE gi_pc' = "write" /\ UNCHANGED gi_prompts
    /\ UNCHANGED <<gi, gi_todo, gi_fetched, final_text, error_occured,
                   outfile, gi_exc, notGi>>

\* lines 184-186: open(outfile, "w") may raise OSError and leave the file;
\* once open the file is empty, and the write fills it or fails.
WriteOutfile ==
    /\ gi_pc = "write"
    /\ \/ /\ outfile' = <<"written", final_text>>
          /\ gi_pc' = "done"
          /\ UNCHANGED gi_exc
       \/ /\ outfile' = <<"written", <<>>>>
          /\ gi_pc' = "raised"
          /\ gi_exc' = "OSError"
       \/ /\ outfile' = outfile
          /\ gi_pc' = "raised"
          /\ gi_exc' = "OSError"
    /\ UNCHANGED <<gi, gi_todo, gi_fetched, final_text, error_occured,
                   gi_prompts, notGi>>

NextBuild ==
    \/ BuildStart
    \/ Fetch
    \/ BuildReturn

SpecBuild == InitBuild /\ [][NextBuild]_vars

NextGitignore ==
    \/ GiStart
    \/ BuildStart
    \/ Fetch
    \/ BuildReturn
    \/ ErrorPrompt
    \/ CheckOutfile
    \/ WriteOutfile

SpecGitignore == InitGitignore /\ [][NextGitignore]_vars

\* ------------------------------------------------------------- claims

\* The handle of a file name, stated without split: the prefix that holds no
\* separator and is followed by a separator or by the end of the name.
HandleOf(s) ==
    CHOOSE h \in {SubSeq(s, 1, k) : k \in 0..Len(s)} :
        /\ \A i \in 1..Len(h) : h[i] # Sep
        /\ Len(h) = Len(s) \/ s[Len(h) + 1] = Sep

\* destination/<handle>/<name> for file name f.
HandlePath(f) == PathJoin(<<HandleOf(f), f>>)

Returned == pc = "returned"

\* Nothing in the source or under the destination differs from before the call.
FileSystemUnchanged ==
    /\ srcFiles = initial.srcFiles
    /\ destKind = initial.destKind
    /\ destDirs = initial.destDirs
    /\ destFiles = initial.destFiles
    /\ DOMAIN mkdir_calls = {}
    /\ relocated = {}

\* C1: after categorize returns for a directory source, every enumerated file
\* is in exactly one place: at destination/<handle>/<name> and gone from the
\* source if its move succeeded, still in the source and not moved to the
\* destination (and logged) if its move raised an OS error.
C1_ExactlyOnePlace ==
    (Returned /\ srcKind = "dir") =>
        \A f \in files :
            /\ (f \in relocated) # (f \in errors)
            /\ f \in relocated =>
                  HandlePath(f) \in destFiles /\ f \notin srcFiles
            /\ f \in errors =>
                  /\ f \in srcFiles
                  /\ HandlePath(f) \in destFiles => HandlePath(f) \in initial.destFiles

\* C1 witness: a directory run returned with one file moved and one left behind.
C1_Witness ==
    /\ Returned
    /\ srcKind = "dir"
    /\ \E f \in files : f \in relocated /\ HandleOf(f) # <<>>
    /\ \E f \in files : f \in errors

\* C2: the handle used for the subdirectories (get_unique_names) and the one
\* used for relocating a file (categorize's loop) are both the part of the name
\* before its first '_', the whole name when it holds no '_'.
C2_SameHandle ==
    /\ pc \notin {"start", "names"} =>
          unique_names = {HandleOf(f) : f \in initial.srcFiles}
    /\ \A d \in derived : d[2] = HandleOf(d[1]) /\ d[2] \in unique_names

\* C2 witness: the loop has visited a name with a separator and a name with none.
C2_Witness ==
    /\ \E d \in derived : Cardinality(SepPositions(d[1])) >= 1 /\ d[2] # d[1]
    /\ \E d \in derived : SepPositions(d[1]) = {} /\ d[2] = d[1]

\* C3: an OS error of one file's move or extract never leaves the relocation
\* loop: the file is logged and skipped, every file visited without an error
\* is at destination/<handle>/<name>, and a run that returns has visited
\* every file of the batch.
C3_FailureIsolation ==
    /\ derived # {} => exc # "OSError"
    /\ \A f \in files \ todo_files :
          /\ f \in errors \/ f \in relocated
          /\ f \in relocated =>
                PathJoin(<<HandleOf(f)>>) \o <<f>> \in destFiles
    /\ Returned => todo_files = {} /\ errors \cup relocated = files

\* C3 witness: a run returned after one file failed and another was relocated.
C3_Witness ==
    /\ Returned
    /\ errors # {}
    /\ relocated # {}

\* C4: a source that is neither a directory nor a zip archive makes categorize
\* raise ValueError with the file system unchanged, whatever the destination is.
C4_InvalidSource ==
    ~SourceValid =>
        /\ pc = "start" \/ (pc = "raised" /\ exc = "ValueError")
        /\ FileSystemUnchanged

\* C4 witness: the error was raised for a destination that does not exist.
C4_Witness ==
    /\ ~SourceValid
    /\ pc = "raised"
    /\ destKind = "absent"

\* C5: with a valid source and a destination that exists and is not a
\* directory, categorize raises ValueError, and up to that moment nothing was
\* created, moved or extracted.
C5_InvalidDestination ==
    (SourceValid /\ initial.destKind = "file") =>
        /\ pc \in {"start", "names", "dest"} \/ (pc = "raised" /\ exc = "ValueError")
        /\ FileSystemUnchanged

\* C5 witness: the error was raised for a non-empty batch.
C5_Witness ==
    /\ SourceValid
    /\ initial.destKind = "file"
    /\ pc = "raised"
    /\ srcFiles # {}

\* C6: if categorize opened the zip archive, the archive is closed on every
\* exit of categorize, a normal return and a raised exception alike.
C6_ArchiveClosedOnExit ==
    pc \in {"returned", "raised"} => zip_f # "open"

\* C7: once the source and destination checks have passed, categorize returns
\* normally: the only exception it ever raises is the ValueError of a failed
\* precondition.
C7_AlwaysReturns ==
    pc = "raised" => exc = "ValueError"

\* C8: after categorize returns, the subdirectory of every handle that had a
\* file relocated successfully is a directory that holds at least one file.
C8_HandleDirNonEmpty ==
    Returned =>
        \A f \in relocated :
            /\ IsDir(PathJoin(<<HandleOf(f)>>))
            /\ \E p \in destFiles : Parent(p) = PathJoin(<<HandleOf(f)>>)

\* C8 witness: a run returned after relocating a file with a non-empty handle.
C8_Witness ==
    /\ Returned
    /\ \E f \in relocated : HandleOf(f) # <<>> /\ HandleOf(f) # f

\* The destination does not exist or is an empty directory before the call.
EmptyStart ==
    \/ initial.destKind = "absent"
    \/ initial.destKind = "dir" /\ initial.destDirs = {} /\ initial.destFiles = {}

\* C9: starting from an absent or empty destination, every subdirectory under
\* the destination is named by the handle of an input file name, os.mkdir
\* creates nothing else below the destination and creates no path twice, and
\* a run that returns has created the subdirectory of every non-empty handle.
C9_OnlyHandleDirs ==
    EmptyStart =>
        /\ \A d \in destDirs : \E f \in initial.srcFiles : d = <<HandleOf(f)>>
        /\ \A p \in DOMAIN mkdir_calls :
              /\ mkdir_calls[p] = 1
              /\ p = <<>> \/ \E f \in initial.srcFiles : p = <<HandleOf(f)>>
        /\ Returned =>
              \A f \in initial.srcFiles :
                  HandleOf(f) # <<>> => <<HandleOf(f)>> \in DOMAIN mkdir_calls

\* C9 witness: a run from an empty start returned after two files shared one handle.
C9_Witness ==
    /\ Returned
    /\ EmptyStart
    /\ \E f, g \in files : f # g /\ HandleOf(f) = HandleOf(g) /\ HandleOf(f) # <<>>

\* C10: after categorize returns normally, destination/<handle> is a directory
\* for every enumerated name, whatever the destination held before the run.
C10_HandleDirExists ==
    Returned => \A f \in files : IsDir(PathJoin(<<HandleOf(f)>>))

\* ---------------------------------------------------------------- C11

SecondRunAfterReturn == run = 2 /\ afterFirst.pc = "returned"

\* C11 as stated: a second run after a first run that returned raises neither
\* OSError nor ValueError, and leaves the files under destination as the first
\* run left them.
C11_SecondRunSameFiles ==
    SecondRunAfterReturn =>
        /\ exc \notin {"OSError", "ValueError"}
        /\ destFiles = afterFirst.destFiles

\* C11 amended: a second run after a first run that returned calls os.mkdir on
\* nothing, raises neither OSError nor ValueError, and, when the first run
\* recorded no per-file error, leaves the files and subdirectories of
\* destination as the first run left them.
C11_SecondRun ==
    SecondRunAfterReturn =>
        /\ DOMAIN mkdir_calls = {}
        /\ exc \notin {"OSError", "ValueError"}
        /\ afterFirst.errors = {} =>
              /\ destFiles = afterFirst.destFiles
              /\ destDirs = afterFirst.destDirs

\* A second run has returned after re-extracting a file into a subdirectory
\* that the first run created, the first run having had no per-file error.
C11_Witness ==
    /\ SecondRunAfterReturn
    /\ pc = "returned"
    /\ afterFirst.errors = {}
    /\ \E f \in relocated : HandleOf(f) # <<>> /\ HandlePath(f) \in afterFirst.destFiles

\* ---------------------------------------------------------------- C12

\* The destination tree that a batch of flat names stands for: one
\* subdirectory per non-empty handle, each file under its handle.
TreeDirs(batch) == {<<HandleOf(f)>> : f \in {g \in batch : HandleOf(g) # <<>>}}
TreeFiles(batch) == {HandlePath(f) : f \in batch}

\* C12: from an empty or absent destination, a run that returns without a
\* per-file error leaves a destination tree that depends on the batch of
\* names alone, so a zip archive and a directory with the same names leave
\* the same subdirectories and the same files in each.
C12_SameTree ==
    (Returned /\ EmptyStart /\ errors = {}) =>
        /\ destDirs = TreeDirs(initial.srcFiles)
        /\ destFiles = TreeFiles(initial.srcFiles)

\* A zip archive of two members with different handles has been extracted
\* into an empty destination without error.
C12_Witness ==
    /\ IsZip
    /\ Returned
    /\ EmptyStart
    /\ errors = {}
    /\ Cardinality(destDirs) = 2
    /\ Cardinality(destFiles) = 2

\* ---------------------------------------------------------------- C13

\* C13 as stated: categorize never changes the set of files in the source,
\* whichever kind of source it is.
C13_SourceReadOnly == srcFiles = initial.srcFiles

\* C13 amended: a zip source keeps all its members, and a directory source
\* loses exactly the files whose move took effect; its other files stay.
C13_SourceEffect ==
    /\ IsZip => srcFiles = initial.srcFiles
    /\ ~IsZip => srcFiles = initial.srcFiles \ relocated
    /\ relocated \subseteq initial.srcFiles

\* A directory source after a run that moved one file and failed on another.
C13_Witness ==
    /\ srcKind = "dir"
    /\ Returned
    /\ relocated # {}
    /\ errors # {}
    /\ srcFiles = errors

\* ---------------------------------------------------------------- C14

HandlesOfFiles == {HandleOf(f) : f \in initial.srcFiles}

\* C14: for a directory source, a subdirectory of the source (taken as a
\* whole, with what it holds) contributes no handle, is never enumerated,
\* has no subdirectory of destination created for it, and is neither moved
\* nor changed.
C14_SubdirsIgnored ==
    /\ unique_names \subseteq HandlesOfFiles
    /\ files \subseteq initial.srcFiles
    /\ \A d \in derived : d[1] \notin initial.srcDirs
    /\ \A p \in DOMAIN mkdir_calls :
          p = <<>> \/ \E h \in HandlesOfFiles : p = <<h>>
    /\ relocated \cap initial.srcDirs = {}
    /\ srcDirs = initial.srcDirs

\* A run has returned after moving a file out of a directory that also holds
\* a subdirectory whose handle no file has.
C14_Witness ==
    /\ Returned
    /\ relocated # {}
    /\ \E d \in srcDirs : HandleOf(d) # <<>> /\ HandleOf(d) \notin HandlesOfFiles
    /\ \E p \in DOMAIN mkdir_calls : p # <<>>

\* ---------------------------------------------------------------- C15

\* C15: for a valid source and a destination path that does not exist, the
\* call ends with the destination created as a directory, every handle's
\* subdirectory made and every file tried.
C15_AbsentDestinationCreated ==
    (SourceValid /\ initial.destKind = "absent" /\ pc \in {"returned", "raised"}) =>
        /\ destKind = "dir"
        /\ \A f \in initial.srcFiles : Exists(<<HandleOf(f)>>) \/ HandleOf(f) = <<>>
        /\ files = initial.srcFiles

\* ---------------------------------------------------------------- C16

\* The segments of a path, each named by the position of the "/" before it
\* (0 for the first).
Cuts(p) == {0} \cup {i \in 1..Len(p) : p[i] = "/"}
NextCut(p, c) == Least({d \in Cuts(p) \cup {Len(p) + 1} : d > c})
Segment(p, c) == SubSeq(p, c + 1, NextCut(p, c) - 1)

\* The segment after the first segment equal to "courses", if there is one.
SegmentAfterCourses(p) ==
    LET hits == {c \in Cuts(p) : Segment(p, c) = <<"courses">>}
    IN  IF hits = {} THEN None
        ELSE IF NextCut(p, Least(hits)) = Len(p) + 1 THEN None
        ELSE Some(Segment(p, NextCut(p, Least(hits))))

\* C16: parse_url_for_course_id returns the segment that follows the first
\* segment "courses" of the URL's path (the URL without its query string and
\* fragment, and without the parameters urlparse takes off the last segment),
\* and None when no segment is "courses" or the first such segment is the last.
C16_CourseIdSegment ==
    course_id # Unset => course_id = SegmentAfterCourses(UrlPath(url))

\* A URL with a query string, whose path has a segment after "courses", has
\* been parsed.
C16_Witness ==
    /\ course_id = Some(<<"x">>)
    /\ \E i \in 1..Len(url) : url[i] = "?"

\* ---------------------------------------------------------------- C17

\* The positions of the group sets called groupset_name in the response.
NamedAt(nodes, groupset_name) ==
    {i \in 1..Len(nodes) : nodes[i].name = groupset_name}

\* C17: a get_groups_by_groupset_name that returns gives the groups of the
\* first group set of the response whose name is the name asked for, as
\* Group objects in the response's order; None when no group set has the
\* name, and None when the status is not 200.
C17_FirstGroupsetNamed ==
    (api_call.op = "get_groups_by_groupset_name" /\ api_return # Unset) =>
        LET hits == NamedAt(response.nodes, api_call.groupset_name)
        IN  IF response.status_code # 200 \/ hits = {}
            THEN api_return = None
            ELSE api_return = Some(GroupSetOf(response.nodes[Least(hits)]).groups)

\* The call has returned the groups of the first of two group sets that
\* have the name asked for and different groups.
C17_Witness ==
    /\ api_call.op = "get_groups_by_groupset_name"
    /\ api_return \notin {Unset, None}
    /\ response.status_code = 200
    /\ Len(response.nodes) = 2
    /\ NamedAt(response.nodes, api_call.groupset_name) = {1, 2}
    /\ response.nodes[1] # response.nodes[2]
    /\ Len(api_return[2]) = 1

\* ---------------------------------------------------------------- C19

\* The name ends with one of the archive suffixes.
EndsWithArchiveSuffix(name) ==
    \E suffix \in archive_suffixes : EndsWith(NameString(name), suffix)

\* C19: whenever on_moved has handled the move of a file (not a directory)
\* to a name that ends with an archive suffix, it has called extract on it.
C19_MovedArchiveExtracted ==
    (/\ w_last.handler = "on_moved"
     /\ ~w_last.is_directory
     /\ EndsWithArchiveSuffix(w_name)) => w_last.extract

\* ---------------------------------------------------------------- C20

\* The positions of the nodes that are students with an email.
StudentsAt(nodes) ==
    {i \in 1..Len(nodes) :
        nodes[i].sisRole = "student" /\ nodes[i].user.email # "null"}

\* The k-th smallest member of a set of positions.
Kth(S, k) == CHOOSE i \in S : Cardinality({j \in S : j <= i}) = k

\* C20: a get_students that returns gives, in the response's order, exactly
\* the nodes whose sisRole is "student" and whose email is not null; None
\* when the status is not 200.
C20_StudentsWithEmail ==
    (api_call.op = "get_students" /\ api_return # Unset) =>
        IF response.status_code # 200
        THEN api_return = None
        ELSE LET at == StudentsAt(response.nodes)
             IN  api_return =
                    Some([k \in 1..Cardinality(at) |-> response.nodes[Kth(at, k)]])

\* The call has returned two students, in order, out of a response that
\* also held a student without email between them.
C20_Witness ==
    /\ api_call.op = "get_students"
    /\ response.status_code = 200
    /\ Len(response.nodes) = 3
    /\ response.nodes[2] = [user |-> [email |-> "null"], sisRole |-> "student"]
    /\ api_return = Some(<<response.nodes[1], response.nodes[3]>>)
    /\ response.nodes[1] # response.nodes[3]

\* ---------------------------------------------------------------- C18

\* The addresses a run collects, told from its inputs: the emails of the
\* students with an email in the response's order, or the stripped lines of
\* the file that are neither blank nor comments, in the file's order.
CollectedFromCanvas ==
    LET at == StudentsAt(inv.response.nodes)
    IN  [k \in 1..Cardinality(at) |-> inv.response.nodes[Kth(at, k)].user.email]

AddressLinesAt ==
    {i \in 1..Len(inv.lines) :
        \E j \in 1..Len(inv.lines[i]) :
            /\ inv.lines[i][j] # " "
            /\ \A k \in 1..(j - 1) : inv.lines[i][k] = " "
            /\ inv.lines[i][j] # "#"}

CollectedFromFile ==
    [k \in 1..Cardinality(AddressLinesAt) |-> Strip(inv.lines[Kth(AddressLinesAt, k)])]

Collected ==
    IF inv.from_canvas_course # None THEN CollectedFromCanvas ELSE CollectedFromFile

\* C18: with --dry-run bulk_invite_to_org is never called, whatever path the
\* command takes, and the "(dry-run) Inviting" lines are one per collected
\* address in input order once the command has come through the team lookup
\* and the invitation step, and none before or otherwise.
C18_DryRunSendsNothing ==
    (inv_pc # "idle" /\ inv.dry_run) =>
        /\ invite_calls = <<>>
        /\ dry_lines = IF inv_pc = "done" /\ team_id = "id" THEN Collected ELSE <<>>

\* A dry run over a file of three lines, one of them a comment or blank, has
\* printed the two addresses in the file's order.
C18_Witness ==
    /\ inv_pc = "done"
    /\ inv.dry_run
    /\ inv.from_canvas_course = None
    /\ Len(inv.lines) = 3
    /\ Len(dry_lines) = 2
    /\ dry_lines[1] # dry_lines[2]
    /\ invite_calls = <<>>

\* ---------------------------------------------------------------- C21

\* C21: a Config made on a config_dir whose auth.yaml the last save() wrote
\* holds the three values that were saved; a Config made on a config_dir
\* without auth.yaml writes one that holds three empty strings, and its
\* has_github_token, has_canvas_token and has_redis_uri are all false.
C21_ConfigRoundTrip ==
    (cfg_last.op = "construct" /\ cfg_exc = "none") =>
        /\ (cfg_last.existed /\ cfg_saved.done) => cfg = cfg_saved.values
        /\ ~cfg_last.existed =>
              /\ cfg_file.kind = "doc"
              /\ Restored(cfg_file) = NoTokens
              /\ ~HasToken(cfg.github_token)
              /\ ~HasToken(cfg.canvas_token)
              /\ ~HasToken(cfg.redis_uri)

\* A Config has been made from an auth.yaml saved with a token that reads
\* as a number, a token with ": " in it and an empty URI.
C21_Witness ==
    /\ cfg_last = [op |-> "construct", existed |-> TRUE]
    /\ cfg_saved.done
    /\ cfg.github_token = Str("123")
    /\ cfg.canvas_token = Str("a: b")
    /\ cfg.redis_uri = Str("")

\* ---------------------------------------------------------------- C22

Accepted(prompt) == Has(gi_prompts, <<prompt, TRUE>>)

OutfileAsBefore == outfile = IF gi.outfile_exists THEN <<"old">> ELSE <<"absent">>

\* C22: create gitignore opens the output file for writing only after "Do
\* you want to continue?" was accepted, the failed-to-fetch question was
\* accepted if a fetch failed, and the overwrite question was accepted if
\* the file existed; after a declined question or an API error the file is
\* as it was.
C22_WriteAfterConfirmations ==
    gi.call = "command" =>
        /\ ~OutfileAsBefore =>
              /\ Accepted("continue")
              /\ error_occured => Accepted("failed to fetch")
              /\ gi.outfile_exists => Accepted("overwrite")
              /\ gi_exc # "ApiError"
        /\ gi_pc \in {"aborted", "failed", "exit0"} => OutfileAsBefore
        /\ Has(gi_prompts, <<"continue", FALSE>>) \/ Has(gi_prompts, <<"failed to fetch", FALSE>>)
              \/ Has(gi_prompts, <<"overwrite", FALSE>>) => OutfileAsBefore

\* The command has written over an existing file after a failed fetch and a
\* fetched entry, all three questions accepted.
C22_Witness ==
    /\ gi.call = "command"
    /\ gi_pc = "done"
    /\ gi.outfile_exists
    /\ error_occured
    /\ outfile = <<"written", final_text>>
    /\ final_text # <<>>
    /\ Len(gi_prompts) = 3

\* ---------------------------------------------------------------- C23

\* The bases as build_gitignore_content takes them: lower case, or the two
\* defaults.
BasesTaken ==
    IF gi.bases = None THEN <<"windows", "macos">>
    ELSE [i \in 1..Len(gi.bases) |-> Lower(gi.bases[i])]

\* The positions of the names that no base equals, case ignored.
NamesKeptAt ==
    {i \in 1..Len(gi.names) :
        \A j \in 1..Len(BasesTaken) : Lower(gi.names[i]) # Lower(BasesTaken[j])}

\* The positions of the fetches that came back with status 200.
FetchedOkAt == {i \in 1..Len(gi_fetched) : gi_fetched[i].status = 200}

\* C23: when build_gitignore_content returns, it has fetched the bases (in
\* lower case) and then the names that are not among the bases, case
\* ignored, each in the given order; the text is, in that order, the header
\* and the body of exactly the entries fetched with status 200; the flag is
\* true exactly when some fetch had another status.
C23_BuildOrderAndText ==
    (gi.call = "function" /\ gi_pc = "returned") =>
        /\ [i \in 1..Len(gi_fetched) |-> gi_fetched[i].name] =
              BasesTaken \o
              [k \in 1..Cardinality(NamesKeptAt) |-> gi.names[Kth(NamesKeptAt, k)]]
        /\ Len(final_text) = 2 * Cardinality(FetchedOkAt)
        /\ \A k \in 1..Cardinality(FetchedOkAt) :
              /\ final_text[2 * k - 1] = <<"header", gi_fetched[Kth(FetchedOkAt, k)].path>>
              /\ final_text[2 * k] = <<"body", gi_fetched[Kth(FetchedOkAt, k)].path>>
        /\ error_occured <=> \E i \in 1..Len(gi_fetched) : gi_fetched[i].status # 200

\* The function has returned after leaving out a name that differs from a
\* base only in case, with one fetch failed and one fetched.
C23_Witness ==
    /\ gi.call = "function"
    /\ gi_pc = "returned"
    /\ gi.bases = <<"Python">>
    /\ gi.names = <<"python", "Foo">>
    /\ Len(gi_fetched) = 2
    /\ error_occured
    /\ Len(final_text) = 2

\* ---------------------------------------------------------------- C24

\* TEAM_PATH is <org-name>/<team-name>: two parts, neither empty.
InTeamPathFormat(team_path) ==
    LET parts == SplitOn(team_path, "/")
    IN  Len(parts) = 2 /\ parts[1] # <<>> /\ parts[2] # <<>>

\* C24: when TEAM_PATH is not in the format <org-name>/<team-name>, create
\* gh-invite stops after the message: Canvas is not queried, GitHub is not
\* asked for the team's id, and no invitation is sent.
C24_BadTeamPathStops ==
    ~InTeamPathFormat(inv.team_path) =>
        /\ canvas_queries = <<>>
        /\ team_id = "unset"
        /\ invite_calls = <<>>

\* ---------------------------------------------------------------- C25

\* C25: when the target folder is a directory, no event makes extract run
\* 7z, and the folder stays; so once a run of 7z has made the target folder,
\* the closed and moved events that follow run 7z no more.
C25_NoRunWhenTargetExists ==
    [][w_target = "dir" => (w_sevenz' = w_sevenz /\ w_target' = "dir")]_vars

\* 7z ran once and made the target folder, and a later event called extract,
\* which skipped the extraction.
C25_Witness ==
    /\ w_target = "dir"
    /\ w_sevenz = 1
    /\ w_events = 3
    /\ w_last.extract
    /\ ~w_last.ran

\* ---------------------------------------------------------------- C26

\* The files the relocation loop has tried to move or extract.
Attempted == {d[1] : d \in derived}

\* Nothing is changed while the two checks are made; no file is tried while
\* handle directories are still to be made; in the loop the files tried and
\* the files still to try split the listing.
OrderingOfPhases ==
    /\ pc \in {"start", "names", "dest"} =>
          FileSystemUnchanged /\ DOMAIN mkdir_calls = {} /\ Attempted = {}
    /\ pc = "mkdirs" =>
          /\ Attempted = {}
          /\ srcFiles = initial.srcFiles
          /\ destFiles = initial.destFiles
    /\ Attempted # {} => todo_names = {}
    /\ pc \in {"loop", "returned"} =>
          /\ Attempted \cap todo_files = {}
          /\ Attempted \cup todo_files = files
          /\ relocated \cap errors = {}
          /\ relocated \cup errors = Attempted

\* A step that tries a file tries one file, which was not tried before.
OneAttemptAtATime ==
    derived' # derived =>
        \E raw \in todo_files :
            /\ raw \notin Attempted
            /\ derived' = derived \cup {<<raw, StudentName(raw)>>}
            /\ todo_files' \subseteq todo_files

\* C26: in categorize the source and destination checks come before the
\* first change to the file system, the mkdir loop over all distinct handles
\* is over before the first file is moved or extracted, and the files are
\* then tried one at a time, each exactly once.
C26_Ordering == []OrderingOfPhases /\ [][OneAttemptAtATime]_vars

\* A run over two files of two handles, into a destination it created, has
\* returned with one file relocated and one failed.
C26_Witness ==
    /\ pc = "returned"
    /\ initial.destKind = "absent"
    /\ Cardinality(unique_names) = 2
    /\ Cardinality(files) = 2
    /\ relocated # {}
    /\ errors # {}

\* ---------------------------------------------------------------- C27

\* C27: every file categorize has relocated lies one level below the
\* subdirectory of its handle, destination/<handle>/<name> with a handle
\* that is not empty, and not in the destination itself; names that begin
\* with "_" included.
C27_BelowHandleDir ==
    \A f \in relocated :
        /\ HandleOf(f) # <<>>
        /\ <<HandleOf(f), f>> \in destFiles
        /\ <<f>> \in destFiles => <<f>> \in initial.destFiles

\* ---------------------------------------------------------------- C28

\* The source directory is not what categorize alone would have left.
OtherProcessActed == srcFiles # initial.srcFiles \ relocated

\* C28: when another process adds or removes files in the source directory
\* between or after the two listings, categorize raises nothing but the
\* ValueError of a failed check; a listed file whose handle subdirectory
\* does not exist, or that is gone, is logged and not relocated; and every
\* relocated file is at destination/<handle>/<name>.
C28_SourceChangesTolerated ==
    OtherProcessActed =>
        /\ pc = "raised" => exc = "ValueError"
        /\ pc = "returned" =>
              \A f \in files :
                  ~IsDir(<<HandleOf(f)>>) => (f \in errors /\ f \notin relocated)
        /\ \A f \in relocated : <<HandleOf(f), f>> \in destFiles

\* ---------------------------------------------------------------- C29

\* --from-canvas-course was given a URL.
CourseFromUrl == inv.from_canvas_course # None /\ Head(inv.from_canvas_course) = "http"

\* C29: once create gh-invite has parsed the URL, what
\* parse_url_for_course_id returned for it is None or a string that is not
\* empty, and Canvas has not been given an empty course id.
C29_CourseIdFromUrlNotEmpty ==
    (CourseFromUrl /\ inv_pc # "start") =>
        /\ ParseUrlForCourseId(Tail(inv.from_canvas_course)) # Some(<<>>)
        /\ \A i \in 1..Len(canvas_queries) : canvas_queries[i] # <<>>

\* ---------------------------------------------------------------- C30

\* C30: no handler of ArchiveFilesEventHandler raises, for a file event or a
\* directory event: after any sequence of events the observer thread has
\* ended with no exception.
C30_HandlersNeverRaise == w_exc = "none"

====
